---- MODULE Spec2Model ----
(***************************************************************************)
(* Shadow Realm board game: the turn / movement / tile-effect engine as    *)
(* the repository implements it.                                           *)
(*                                                                         *)
(* The authoritative state is two database tables (games, players).  Each  *)
(* user runs a client (App -> MainLobby | GameBoard -> TurnControls) that  *)
(* works on a snapshot of that state: GameBoard.loadGameData copies the    *)
(* game row and the user's player row into React state when the board is   *)
(* mounted and again after the user's own endTurn; nothing else refreshes  *)
(* it.  The handlers of TurnControls decide and compute from the snapshot  *)
(* and write the result to the tables.                                     *)
(*                                                                         *)
(* A handler is one action: JavaScript runs it to completion between its   *)
(* awaits, `rolling`/`processing` keep a second handler of the same client *)
(* out while it runs, and the rows it writes are written by no other       *)
(* client's handler in between.  The reload that endTurn starts without    *)
(* awaiting it (onGameUpdate) is the exception: it is in flight after the  *)
(* handler has returned, so each of its two reads is an action of its own. *)
(*                                                                         *)
(* Spec and SpecDuel are sessions in play in which no call fails; in       *)
(* SpecFaulty the awaited calls of the turn handlers can throw;            *)
(* SpecCreation starts from a new game and follows the users through       *)
(* character creation (createCharacter is two steps, its read and its      *)
(* write), SpecCreationFaulty adds the failing lookup of App.onStartGame;  *)
(* SpecEffects applies applyTileEffects to every tile type and d20 roll;  *)
(* SpecWaiting mounts the boards of a new game, whose adventure            *)
(* generation can fail; SpecCrowd is character creation in a game with     *)
(* one seat left; SpecLobby follows App.onStartGame call by call, its      *)
(* lookup in flight, for two games of the lobby's list; SpecStats applies  *)
(* CharacterCreation.rollStat to every four values of a d6.                *)
(*                                                                         *)
(* Not modelled here: the chat messages and the text of the adventure.     *)
(***************************************************************************)
EXTENDS Integers, Sequences, FiniteSets, TLC

\* ---- program constants ------------------------------------------------
BOARD_SIZE == 100
WRAP_BONUS == 200
MAX_PLAYERS == 4
TURN_MODULUS == 4
DIE_SIDES == 6
D20_SIDES == 20
START_POSITION == 0
START_HEALTH == 100
START_GOLD == 1500
MAX_HEALTH == 100
STAT_DICE == 4
STAT_KEPT == 3

\* ---- bounds of the exploration ----------------------------------------
\* movement rolls, action rolls and exits from the board over the whole run
MaxOps == 3
\* the same, for the two-player session of SpecDuel
MaxDuelOps == 6
\* calls of applyTileEffects in SpecEffects
MaxEffectOps == 2
\* movement rolls, action rolls and exits, failed ones too, in SpecFaulty
MaxFaultOps == 3
\* exits from the board and failed lookups in SpecCreation and
\* SpecCreationFaulty
MaxCreationOps == 2
\* the users who take part in SpecCreation, SpecCreationFaulty, SpecCrowd
MaxCreationUsers == 3
\* movement rolls and action rolls in SpecWaiting
MaxWaitingOps == 2
\* users with a client in SpecLobby
MaxLobbyUsers == 2
\* exits from the board in SpecLobby
MaxLobbyOps == 1

Users == 1..MAX_PLAYERS
Die == 1..DIE_SIDES
\* the rolls of a d20, the die the action roll is documented to be
D20 == 1..D20_SIDES
Positions == 0..(BOARD_SIZE - 1)

NoGame == [current_player |-> 0, current_turn |-> 0, status |-> "none",
           adventure_story |-> FALSE]
\* the ids of the game whose rows the model holds and of another game of
\* the lobby's list in which no user has a player
ThisGame == 1
OtherGame == 2

NoPlayer == [id |-> 0, player_number |-> 0, position |-> 0, health |-> 0, gold |-> 0]

VARIABLES
  games,          \* the game's row of table games: current_player,
                  \*          current_turn, status, adventure_story (TRUE =
                  \*          not empty)
  players,        \* table players, rows of this game in creation order
  gameState,      \* App: gameState of each user's client
  loading,        \* GameBoard: loading
  game,           \* GameBoard: game (snapshot of the games row, NoGame = null)
  currentPlayer,  \* GameBoard: currentPlayer (snapshot of the user's row)
  loadStage,      \* GameBoard.loadGameData in flight: which read it awaits
  actionPhase,    \* TurnControls: actionPhase
  playerNumber,   \* CharacterCreation.createCharacter in flight: the
                  \*          playerNumber it computed (0 = not in flight)
  toastError,     \* the messages toast.error has shown to each user
  turnMoves,      \* history: movement rolls accepted from the active player
                  \*          since the stored current_player last changed
  turnActions,    \* history: action rolls accepted from the active player
                  \*          since the stored current_player last changed
  turnBonus,      \* history: the last such movement roll granted the wrap
                  \*          bonus
  nOps,           \* history: movement rolls, action rolls and exits so far
  currentGameId,  \* App: currentGameId of each user's client (0 = null)
  lookups,        \* App.onStartGame calls in flight: the game ids whose
                  \*          players.list each client awaits
  rolls,          \* CharacterCreation.rollStat: the four values drawn by
                  \*          the last call (<<>> = never called)
  stats           \* CharacterCreation: the attribute the last rollStat call
                  \*          returned (0 = not rolled)

vars == <<games, players, gameState, loading, game, currentPlayer, loadStage,
          actionPhase, playerNumber, toastError, turnMoves, turnActions,
          turnBonus, nOps, currentGameId, lookups, rolls, stats>>

\* ---- TurnControls.rollDice ---------------------------------------------
\* the arrays rollDice(count) can return: count rolls of
\* Math.floor(Math.random() * 6) + 1
rollDice(count) == [1..count -> Die]
\* const actionRoll = rollDice(1)[0]
ActionRolls == {dice[1] : dice \in rollDice(1)}

\* ---- BoardTopology: table board_tiles ---------------------------------
\* The table is filled outside this repository; the engine only reads it.
\* One ring with every tile type: tile 0 is the start, the others repeat
\* property, monster, treasure, event.  The table has no row for the
\* positions of MissingTiles (rollAction provides for tiles.length === 0).
TileTypes == {"start", "property", "monster", "treasure", "event"}
MissingTiles == {97}

board_tiles ==
  [p \in Positions \ MissingTiles |->
     IF p = 0 THEN "start"
     ELSE IF p % 4 = 1 THEN "property"
     ELSE IF p % 4 = 2 THEN "monster"
     ELSE IF p % 4 = 3 THEN "treasure"
     ELSE "event"]

\* the list without its filter on the position: the table's first row
TilesAtUnfiltered(pos) == <<board_tiles[0]>>

\* blink.db.board_tiles.list({where: {position}, limit: 1})
TilesAt(pos) ==
  IF pos \in DOMAIN board_tiles THEN <<board_tiles[pos]>> ELSE <<>>

Max(a, b) == IF a >= b THEN a ELSE b
Min(a, b) == IF a <= b THEN a ELSE b

\* ---- TileEffectResolver: the switch of applyTileEffects ---------------
healthChange(tile_type, roll) ==
  CASE tile_type = "monster" -> IF roll >= 15 THEN 0
                                ELSE IF roll <= 8 THEN -15 ELSE 0
    [] OTHER                 -> 0

\* the monster reward only above 15
goldChangeAbove15(tile_type, roll) ==
  CASE tile_type = "monster"  -> IF roll > 15 THEN 50 + (roll * 5) ELSE 0
    [] tile_type = "treasure" -> 25 + (roll * 3)
    [] tile_type = "event"    -> IF roll >= 12 THEN 30
                                 ELSE IF roll <= 6 THEN -20 ELSE 0
    [] OTHER                  -> 0

goldChange(tile_type, roll) ==
  CASE tile_type = "monster"  -> IF roll >= 15 THEN 50 + (roll * 5) ELSE 0
    [] tile_type = "treasure" -> 25 + (roll * 3)
    [] tile_type = "event"    -> IF roll >= 12 THEN 30
                                 ELSE IF roll <= 6 THEN -20 ELSE 0
    [] OTHER                  -> 0

\* newHealth / newGold of applyTileEffects
newHealth(health, change) == Max(0, Min(MAX_HEALTH, health + change))
\* the gold without its floor at 0
newGoldNoFloor(gold, change) == gold + change
newGold(gold, change) == Max(0, gold + change)

\* ---- rollMovement arithmetic ------------------------------------------
newPosition(position, totalMovement) == (position + totalMovement) % BOARD_SIZE
passedStart(position, totalMovement) == position + totalMovement >= BOARD_SIZE

\* ---- endTurn arithmetic -----------------------------------------------
nextPlayer(current_player) == (current_player % TURN_MODULUS) + 1
nextTurn(current_player, current_turn) ==
  IF nextPlayer(current_player) = 1 THEN current_turn + 1 ELSE current_turn

\* ---- GameBoard.loadGameData: the user's player of this game -----------
\* players.list ordered by player_number, then find(p => p.user_id === user.id)
UserRows(u) == {i \in DOMAIN players : players[i].user_id = u}
FindUserPlayer(u) ==
  IF UserRows(u) = {} THEN 0
  ELSE CHOOSE i \in UserRows(u) :
         \A j \in UserRows(u) :
            \/ players[i].player_number < players[j].player_number
            \/ players[i].player_number = players[j].player_number /\ i <= j

Snapshot(i) ==
  IF i = 0 THEN NoPlayer
  ELSE [id |-> i, player_number |-> players[i].player_number,
        position |-> players[i].position, health |-> players[i].health,
        gold |-> players[i].gold]

\* GameBoard renders TurnControls only once loaded with a game and a player
Rendered(u) ==
  /\ gameState[u] = "game"
  /\ ~loading[u]
  /\ game[u] # NoGame
  /\ currentPlayer[u] # NoPlayer

\* TurnControls: isMyTurn
isMyTurn(u) == currentPlayer[u].player_number = game[u].current_player

\* the stored roster
rosterSize == Len(players)
PlayerNumbers == {players[i].player_number : i \in DOMAIN players}

\* the stored row of the player a client acts for
Row(u) == players[currentPlayer[u].id]

\* the client's player is the one the stored turn pointer names
StoredActive(u) ==
  /\ currentPlayer[u] # NoPlayer
  /\ Row(u).player_number = games.current_player

\* ---- initial states ---------------------------------------------------
\* A session in play: n users have created their characters (player_number
\* 1..n in creation order), the turn pointer is at one of them, and every
\* client has the board mounted with a snapshot that is up to date.  The
\* player whose turn it is has the resources of a game in progress (players
\* numbered below 4 reach every such value by rolling, leaving the board and
\* joining again while the game is not full); the fourth player, and the
\* players waiting for their turn, have the values of character creation.
ActiveStarts ==
  { <<START_POSITION, START_HEALTH, START_GOLD>>,
    <<95, 100, 1500>>,
    <<96, 100, 10>>,
    <<98, 10, 1500>> }

NewPlayerRow(u, n) ==
  [user_id |-> u, player_number |-> n, position |-> START_POSITION,
   health |-> START_HEALTH, gold |-> START_GOLD]

\* App: useState of currentGameId (the game of the view shown, null in
\* the lobby), no onStartGame in flight; CharacterCreation: no attribute
\* rolled yet
InitApp ==
  /\ currentGameId = [u \in Users |-> IF gameState[u] = "lobby" THEN 0 ELSE ThisGame]
  /\ lookups = [u \in Users |-> {}]
  /\ rolls = <<>>
  /\ stats = 0

Init ==
  \E n \in 1..MAX_PLAYERS, k \in 1..MAX_PLAYERS, a \in ActiveStarts :
    /\ k <= n
    /\ (k = MAX_PLAYERS => a = <<START_POSITION, START_HEALTH, START_GOLD>>)
    /\ games = [current_player |-> k, current_turn |-> 1, status |-> "active",
                adventure_story |-> TRUE]
    /\ players = [i \in 1..n |->
                    IF i = k
                    THEN [user_id |-> i, player_number |-> i, position |-> a[1],
                          health |-> a[2], gold |-> a[3]]
                    ELSE NewPlayerRow(i, i)]
    /\ gameState = [u \in Users |-> IF u <= n THEN "game" ELSE "lobby"]
    /\ loading = [u \in Users |-> FALSE]
    /\ game = [u \in Users |-> IF u <= n THEN games ELSE NoGame]
    /\ currentPlayer = [u \in Users |-> IF u <= n THEN Snapshot(u) ELSE NoPlayer]
    /\ loadStage = [u \in Users |-> "idle"]
    /\ actionPhase = [u \in Users |-> FALSE]
    /\ playerNumber = [u \in Users |-> 0]
    /\ toastError = [u \in Users |-> {}]
    /\ turnMoves = 0
    /\ turnActions = 0
    /\ turnBonus = FALSE
    /\ nOps = 0
    /\ InitApp

\* ---- TurnControls.rollMovement ----------------------------------------
\* The button is rendered for isMyTurn and not actionPhase.
rollMovement(u, d1, d2) ==
  LET me == currentPlayer[u]
      totalMovement == d1 + d2
      moved == [players EXCEPT ![me.id].position =
                                 newPosition(me.position, totalMovement)]
  IN
  /\ Rendered(u)
  /\ isMyTurn(u)
  /\ ~actionPhase[u]
  /\ players' = IF passedStart(me.position, totalMovement)
                THEN [moved EXCEPT ![me.id].gold = me.gold + WRAP_BONUS]
                ELSE moved
  /\ actionPhase' = [actionPhase EXCEPT ![u] = TRUE]
  /\ turnMoves' = IF StoredActive(u) THEN turnMoves + 1 ELSE turnMoves
  /\ turnBonus' = IF StoredActive(u)
                  THEN passedStart(me.position, totalMovement)
                  ELSE turnBonus
  /\ nOps' = nOps + 1
  /\ UNCHANGED <<currentGameId, lookups, rolls, stats,
                 games, gameState, loading, game, currentPlayer, loadStage,
                 playerNumber, toastError, turnActions>>

\* ---- TurnControls.applyTileEffects ------------------------------------
\* the update without its row id: every player of the game gets the values
applyTileEffectsAll(u, tile_type, roll) ==
  LET me == currentPlayer[u]
      hc == healthChange(tile_type, roll)
      gc == goldChange(tile_type, roll)
  IN IF hc # 0 \/ gc # 0
     THEN [i \in DOMAIN players |->
             [players[i] EXCEPT !.health = newHealth(me.health, hc),
                                !.gold = newGold(me.gold, gc)]]
     ELSE players

\* the players table after the effects of `tile_type` with `roll`
applyTileEffects(u, tile_type, roll) ==
  LET me == currentPlayer[u]
      hc == healthChange(tile_type, roll)
      gc == goldChange(tile_type, roll)
  IN IF hc # 0 \/ gc # 0
     THEN [players EXCEPT ![me.id].health = newHealth(me.health, hc),
                          ![me.id].gold = newGold(me.gold, gc)]
     ELSE players

\* ---- TurnControls.rollAction ------------------------------------------
\* The button is rendered for isMyTurn and actionPhase.  The roll is
\* rollDice(1)[0].
rollAction(u, actionRoll) ==
  LET me == currentPlayer[u]
      tiles == TilesAt(me.position)
  IN
  /\ Rendered(u)
  /\ isMyTurn(u)
  /\ actionPhase[u]
  /\ players' = IF Len(tiles) = 0 THEN players
                ELSE applyTileEffects(u, tiles[1], actionRoll)
  /\ toastError' = IF Len(tiles) = 0
                   THEN [toastError EXCEPT ![u] = @ \cup {"Tile not found"}]
                   ELSE toastError
  /\ turnActions' = IF StoredActive(u) THEN turnActions + 1 ELSE turnActions
  /\ nOps' = nOps + 1
  /\ UNCHANGED <<currentGameId, lookups, rolls, stats,
                 games, gameState, loading, game, currentPlayer, loadStage,
                 actionPhase, playerNumber, turnMoves, turnBonus>>

\* ---- TurnControls.endTurn ---------------------------------------------
\* The button is rendered for isMyTurn and actionPhase.  onGameUpdate()
\* starts GameBoard.loadGameData and is not awaited.
endTurn(u) ==
  LET me == currentPlayer[u]
      np == nextPlayer(game[u].current_player)
      nt == nextTurn(game[u].current_player, game[u].current_turn)
  IN
  /\ Rendered(u)
  /\ isMyTurn(u)
  /\ actionPhase[u]
  /\ games' = [games EXCEPT !.current_player = np, !.current_turn = nt]
  /\ actionPhase' = [actionPhase EXCEPT ![u] = FALSE]
  /\ loadStage' = [loadStage EXCEPT ![u] = "games"]
  /\ turnMoves' = IF np # games.current_player THEN 0 ELSE turnMoves
  /\ turnActions' = IF np # games.current_player THEN 0 ELSE turnActions
  /\ turnBonus' = IF np # games.current_player THEN FALSE ELSE turnBonus
  /\ UNCHANGED <<currentGameId, lookups, rolls, stats,
                 players, gameState, loading, game, currentPlayer,
                 playerNumber, toastError, nOps>>

\* ---- GameBoard.loadGameData -------------------------------------------
\* first await: games.list, then setGame
loadGame(u) ==
  /\ gameState[u] = "game"
  /\ loadStage[u] = "games"
  /\ game' = [game EXCEPT ![u] = games]
  /\ loadStage' = [loadStage EXCEPT ![u] = "players"]
  /\ UNCHANGED <<currentGameId, lookups, rolls, stats,
                 games, players, gameState, loading, currentPlayer,
                 actionPhase, playerNumber, toastError, turnMoves,
                 turnActions, turnBonus, nOps>>

\* second await: players.list, then setPlayers, setCurrentPlayer; when the
\* game row read before has no adventure_story and the game has players,
\* generateAdventure is awaited next, otherwise setLoading(false) in the
\* finally block
loadPlayers(u) ==
  /\ gameState[u] = "game"
  /\ loadStage[u] = "players"
  /\ currentPlayer' = [currentPlayer EXCEPT ![u] = Snapshot(FindUserPlayer(u))]
  /\ IF ~game[u].adventure_story /\ Len(players) > 0
     THEN /\ loadStage' = [loadStage EXCEPT ![u] = "adventure"]
          /\ UNCHANGED loading
     ELSE /\ loading' = [loading EXCEPT ![u] = FALSE]
          /\ loadStage' = [loadStage EXCEPT ![u] = "idle"]
  /\ UNCHANGED <<currentGameId, lookups, rolls, stats,
                 games, players, gameState, game, actionPhase,
                 playerNumber, toastError, turnMoves, turnActions, turnBonus,
                 nOps>>

\* ---- GameBoard.generateAdventure --------------------------------------
\* awaited by loadGameData: the story is generated, the games row gets it
\* and status 'active', then setGame patches the client's copy; back in
\* loadGameData, setLoading(false)
generateAdventure(u) ==
  /\ gameState[u] = "game"
  /\ loadStage[u] = "adventure"
  /\ games' = [games EXCEPT !.adventure_story = TRUE, !.status = "active"]
  /\ game' = [game EXCEPT ![u] =
                 IF @ = NoGame THEN @
                 ELSE [@ EXCEPT !.adventure_story = TRUE, !.status = "active"]]
  /\ loading' = [loading EXCEPT ![u] = FALSE]
  /\ loadStage' = [loadStage EXCEPT ![u] = "idle"]
  /\ UNCHANGED <<currentGameId, lookups, rolls, stats,
                 players, gameState, currentPlayer, actionPhase,
                 playerNumber, toastError, turnMoves, turnActions, turnBonus,
                 nOps>>

\* generateAdventure throws: at generateText or at the games write
\* (written = FALSE), or at the narrator message after the games row was
\* written (written = TRUE); setGame is not reached
generateAdventureFails(u, written) ==
  /\ gameState[u] = "game"
  /\ loadStage[u] = "adventure"
  /\ written \in BOOLEAN
  /\ games' = IF written
              THEN [games EXCEPT !.adventure_story = TRUE, !.status = "active"]
              ELSE games
  /\ toastError' = [toastError EXCEPT ![u] = @ \cup {"Failed to generate adventure"}]
  /\ loading' = [loading EXCEPT ![u] = FALSE]
  /\ loadStage' = [loadStage EXCEPT ![u] = "idle"]
  /\ UNCHANGED <<currentGameId, lookups, rolls, stats,
                 players, gameState, game, currentPlayer, actionPhase,
                 playerNumber, turnMoves, turnActions, turnBonus, nOps>>

\* ---- App.onExitGame ---------------------------------------------------
\* "Exit Game" unmounts GameBoard and TurnControls: their state is gone and
\* a load still in flight no longer sets anything.
onExitGame(u) ==
  /\ gameState[u] = "game"
  /\ ~loading[u]
  /\ nOps' = nOps + 1
  /\ currentGameId' = [currentGameId EXCEPT ![u] = 0]
  /\ gameState' = [gameState EXCEPT ![u] = "lobby"]
  /\ game' = [game EXCEPT ![u] = NoGame]
  /\ currentPlayer' = [currentPlayer EXCEPT ![u] = NoPlayer]
  /\ loadStage' = [loadStage EXCEPT ![u] = "idle"]
  /\ actionPhase' = [actionPhase EXCEPT ![u] = FALSE]
  /\ UNCHANGED <<lookups, rolls, stats,
                 games, players, loading, playerNumber, toastError,
                 turnMoves, turnActions, turnBonus>>

\* ---- MainLobby.joinGame, App.onStartGame ------------------------------
\* A user who has a player goes to the board, unless the game is full
\* ("Game is full"); GameBoard mounts with loading = true and starts
\* loadGameData.
joinGame(u) ==
  /\ gameState[u] = "lobby"
  /\ UserRows(u) # {}
  /\ IF Len(players) >= MAX_PLAYERS
     THEN /\ toastError' = [toastError EXCEPT ![u] = @ \cup {"Game is full"}]
          /\ UNCHANGED currentGameId
          /\ UNCHANGED <<gameState, loading, game, currentPlayer, loadStage,
                         actionPhase>>
     ELSE /\ currentGameId' = [currentGameId EXCEPT ![u] = ThisGame]
          /\ gameState' = [gameState EXCEPT ![u] = "game"]
          /\ loading' = [loading EXCEPT ![u] = TRUE]
          /\ game' = [game EXCEPT ![u] = NoGame]
          /\ currentPlayer' = [currentPlayer EXCEPT ![u] = NoPlayer]
          /\ loadStage' = [loadStage EXCEPT ![u] = "games"]
          /\ actionPhase' = [actionPhase EXCEPT ![u] = FALSE]
          /\ UNCHANGED toastError
  /\ UNCHANGED <<lookups, rolls, stats,
                 games, players, playerNumber, turnMoves, turnActions,
                 turnBonus, nOps>>

Next ==
  \/ nOps < MaxOps /\ \E u \in Users, d1 \in Die, d2 \in Die : rollMovement(u, d1, d2)
  \/ nOps < MaxOps /\ \E u \in Users, r \in ActionRolls : rollAction(u, r)
  \/ \E u \in Users : endTurn(u)
  \/ \E u \in Users : loadGame(u)
  \/ \E u \in Users : loadPlayers(u)
  \/ nOps < MaxOps /\ \E u \in Users : onExitGame(u)
  \/ \E u \in Users : joinGame(u)

Spec == Init /\ [][Next]_vars

\* ---- a two-player session from character creation ---------------------
\* Both users have just created their characters and nobody has played.
InitDuel ==
  /\ games = [current_player |-> 1, current_turn |-> 1, status |-> "active",
              adventure_story |-> TRUE]
  /\ players = [i \in 1..2 |-> NewPlayerRow(i, i)]
  /\ gameState = [u \in Users |-> IF u <= 2 THEN "game" ELSE "lobby"]
  /\ loading = [u \in Users |-> FALSE]
  /\ game = [u \in Users |-> IF u <= 2 THEN games ELSE NoGame]
  /\ currentPlayer = [u \in Users |-> IF u <= 2 THEN Snapshot(u) ELSE NoPlayer]
  /\ loadStage = [u \in Users |-> "idle"]
  /\ actionPhase = [u \in Users |-> FALSE]
  /\ playerNumber = [u \in Users |-> 0]
  /\ toastError = [u \in Users |-> {}]
  /\ turnMoves = 0
  /\ turnActions = 0
  /\ turnBonus = FALSE
  /\ nOps = 0
  /\ InitApp

NextDuel ==
  \/ nOps < MaxDuelOps /\ \E u \in Users, d1 \in Die, d2 \in Die : rollMovement(u, d1, d2)
  \/ nOps < MaxDuelOps /\ \E u \in Users, r \in ActionRolls : rollAction(u, r)
  \/ \E u \in Users : endTurn(u)
  \/ \E u \in Users : loadGame(u)
  \/ \E u \in Users : loadPlayers(u)
  \/ nOps < MaxDuelOps /\ \E u \in Users : onExitGame(u)
  \/ \E u \in Users : joinGame(u)

SpecDuel == InitDuel /\ [][NextDuel]_vars

\* ---- joining a game as a new player, CharacterCreation -----------------
\* MainLobby.joinGame of a user without a player in the game, then
\* App.onStartGame: the game is not full and the user has no player, so the
\* client shows CharacterCreation.
joinGameAsNew(u) ==
  /\ gameState[u] = "lobby"
  /\ UserRows(u) = {}
  /\ IF Len(players) >= MAX_PLAYERS
     THEN /\ toastError' = [toastError EXCEPT ![u] = @ \cup {"Game is full"}]
          /\ UNCHANGED currentGameId
          /\ UNCHANGED gameState
     ELSE /\ currentGameId' = [currentGameId EXCEPT ![u] = ThisGame]
          /\ gameState' = [gameState EXCEPT ![u] = "character-creation"]
          /\ UNCHANGED toastError
  /\ UNCHANGED <<lookups, rolls, stats,
                 games, players, loading, game, currentPlayer, loadStage,
                 actionPhase, playerNumber, turnMoves, turnActions, turnBonus,
                 nOps>>

\* CharacterCreation: "Back"
onBack(u) ==
  /\ gameState[u] = "character-creation"
  /\ playerNumber[u] = 0
  /\ currentGameId' = [currentGameId EXCEPT ![u] = 0]
  /\ gameState' = [gameState EXCEPT ![u] = "lobby"]
  /\ UNCHANGED <<lookups, rolls, stats,
                 games, players, loading, game, currentPlayer, loadStage,
                 actionPhase, playerNumber, toastError, turnMoves, turnActions,
                 turnBonus, nOps>>

\* createCharacter up to its first await: players.list, the game's rows
\* counted, playerNumber = count + 1, "Game is full" above 4
createCharacterList(u) ==
  /\ gameState[u] = "character-creation"
  /\ playerNumber[u] = 0
  /\ IF Len(players) + 1 > MAX_PLAYERS
     THEN /\ toastError' = [toastError EXCEPT ![u] = @ \cup {"Game is full"}]
          /\ UNCHANGED playerNumber
     ELSE /\ playerNumber' = [playerNumber EXCEPT ![u] = Len(players) + 1]
          /\ UNCHANGED toastError
  /\ UNCHANGED <<currentGameId, lookups, rolls, stats,
                 games, players, gameState, loading, game, currentPlayer,
                 loadStage, actionPhase, turnMoves, turnActions, turnBonus,
                 nOps>>

\* createCharacter from players.create on: the row is written with the
\* playerNumber computed before, then onCharacterCreated shows the board
\* (GameBoard mounts with loading = true and starts loadGameData).  The
\* games row's current_players is not part of the model.
createCharacterCreate(u) ==
  /\ gameState[u] = "character-creation"
  /\ playerNumber[u] # 0
  /\ players' = Append(players, NewPlayerRow(u, playerNumber[u]))
  /\ playerNumber' = [playerNumber EXCEPT ![u] = 0]
  /\ gameState' = [gameState EXCEPT ![u] = "game"]
  /\ loading' = [loading EXCEPT ![u] = TRUE]
  /\ game' = [game EXCEPT ![u] = NoGame]
  /\ currentPlayer' = [currentPlayer EXCEPT ![u] = NoPlayer]
  /\ loadStage' = [loadStage EXCEPT ![u] = "games"]
  /\ actionPhase' = [actionPhase EXCEPT ![u] = FALSE]
  /\ UNCHANGED <<currentGameId, lookups, rolls, stats,
                 games, toastError, turnMoves, turnActions, turnBonus, nOps>>

\* MainLobby.joinGame of a user who has a player, then App.onStartGame
\* whose players.list throws: "Default to character creation on error"
joinGameLookupFails(u) ==
  /\ gameState[u] = "lobby"
  /\ UserRows(u) # {}
  /\ Len(players) < MAX_PLAYERS
  /\ currentGameId' = [currentGameId EXCEPT ![u] = ThisGame]
  /\ gameState' = [gameState EXCEPT ![u] = "character-creation"]
  /\ nOps' = nOps + 1
  /\ UNCHANGED <<lookups, rolls, stats,
                 games, players, loading, game, currentPlayer, loadStage,
                 actionPhase, playerNumber, toastError, turnMoves, turnActions,
                 turnBonus>>

\* A game just created by MainLobby.createGame: no players yet, every user
\* in the lobby.
InitCreation ==
  /\ games = [current_player |-> 1, current_turn |-> 1, status |-> "waiting",
              adventure_story |-> FALSE]
  /\ players = <<>>
  /\ gameState = [u \in Users |-> "lobby"]
  /\ loading = [u \in Users |-> FALSE]
  /\ game = [u \in Users |-> NoGame]
  /\ currentPlayer = [u \in Users |-> NoPlayer]
  /\ loadStage = [u \in Users |-> "idle"]
  /\ actionPhase = [u \in Users |-> FALSE]
  /\ playerNumber = [u \in Users |-> 0]
  /\ toastError = [u \in Users |-> {}]
  /\ turnMoves = 0
  /\ turnActions = 0
  /\ turnBonus = FALSE
  /\ nOps = 0
  /\ InitApp

CreationUsers == Users \cap (1..MaxCreationUsers)

NextCreation ==
  \/ \E u \in CreationUsers : joinGameAsNew(u)
  \/ \E u \in CreationUsers : onBack(u)
  \/ \E u \in CreationUsers : createCharacterList(u)
  \/ \E u \in CreationUsers : createCharacterCreate(u)
  \/ \E u \in CreationUsers : loadGame(u)
  \/ \E u \in CreationUsers : loadPlayers(u)
  \/ \E u \in CreationUsers : generateAdventure(u)
  \/ nOps < MaxCreationOps /\ \E u \in CreationUsers : onExitGame(u)
  \/ \E u \in CreationUsers : joinGame(u)

SpecCreation == InitCreation /\ [][NextCreation]_vars

\* the same, with the lookup of App.onStartGame able to throw
NextCreationFaulty ==
  \/ NextCreation
  \/ nOps < MaxCreationOps /\ \E u \in CreationUsers : joinGameLookupFails(u)

SpecCreationFaulty == InitCreation /\ [][NextCreationFaulty]_vars

\* ---- handlers whose awaited calls throw --------------------------------
\* Every awaited call (a table read or write, a chat message, the
\* narration) can throw; the handler's catch shows a toast and its finally
\* resets rolling / processing.  What was written before the throw stays
\* written.  The history variables count the calls that completed.

\* the players table after the first `writes` writes of rollMovement
movementWrites(u, d1, d2, writes) ==
  LET me == currentPlayer[u]
      moved == [players EXCEPT ![me.id].position =
                                 newPosition(me.position, d1 + d2)]
  IN CASE writes = 0 -> players
       [] writes = 1 -> moved
       [] OTHER      -> [moved EXCEPT ![me.id].gold = me.gold + WRAP_BONUS]

\* rollMovement throws at its call number `step`: 1 the position write,
\* 2 the movement message, 3 the gold write, 4 the portal message
rollMovementFails(u, d1, d2, step) ==
  LET me == currentPlayer[u] IN
  /\ Rendered(u)
  /\ isMyTurn(u)
  /\ ~actionPhase[u]
  /\ step \in 1..4
  /\ step >= 3 => passedStart(me.position, d1 + d2)
  /\ players' = movementWrites(u, d1, d2,
                               IF step = 1 THEN 0 ELSE IF step <= 3 THEN 1 ELSE 2)
  /\ toastError' = [toastError EXCEPT ![u] = @ \cup {"Failed to roll dice"}]
  /\ nOps' = nOps + 1
  /\ UNCHANGED <<currentGameId, lookups, rolls, stats,
                 games, gameState, loading, game, currentPlayer, loadStage,
                 actionPhase, playerNumber, turnMoves, turnActions, turnBonus>>

\* rollAction throws before applyTileEffects has written (the tile read,
\* the narration, the narrator message, the write itself) or after it (the
\* health or gold message)
rollActionFails(u, actionRoll, written) ==
  LET me == currentPlayer[u]
      tiles == TilesAt(me.position)
  IN
  /\ Rendered(u)
  /\ isMyTurn(u)
  /\ actionPhase[u]
  /\ written \in BOOLEAN
  /\ written => /\ Len(tiles) > 0
                /\ \/ healthChange(tiles[1], actionRoll) # 0
                   \/ goldChange(tiles[1], actionRoll) # 0
  /\ players' = IF written THEN applyTileEffects(u, tiles[1], actionRoll)
                ELSE players
  /\ toastError' = [toastError EXCEPT ![u] = @ \cup {"Failed to perform action"}]
  /\ nOps' = nOps + 1
  /\ UNCHANGED <<currentGameId, lookups, rolls, stats,
                 games, gameState, loading, game, currentPlayer, loadStage,
                 actionPhase, playerNumber, turnMoves, turnActions, turnBonus>>

\* rollAction whose narration call (blink.ai.generateText) throws, the tile
\* having been found: the catch is reached before the narrator message and
\* before applyTileEffects
rollActionNarrationFails(u, actionRoll) ==
  LET me == currentPlayer[u]
      tiles == TilesAt(me.position)
  IN
  /\ Rendered(u)
  /\ isMyTurn(u)
  /\ actionPhase[u]
  /\ Len(tiles) > 0
  /\ toastError' = [toastError EXCEPT ![u] = @ \cup {"Failed to perform action"}]
  /\ nOps' = nOps + 1
  /\ UNCHANGED <<currentGameId, lookups, rolls, stats,
                 games, players, gameState, loading, game, currentPlayer,
                 loadStage, actionPhase, playerNumber, turnMoves, turnActions,
                 turnBonus>>

\* endTurn throws at the games write (written = FALSE) or at the turn-end
\* message (written = TRUE): setActionPhase and onGameUpdate are not reached
endTurnFails(u, written) ==
  LET np == nextPlayer(game[u].current_player)
      nt == nextTurn(game[u].current_player, game[u].current_turn)
  IN
  /\ Rendered(u)
  /\ isMyTurn(u)
  /\ actionPhase[u]
  /\ written \in BOOLEAN
  /\ games' = IF written
              THEN [games EXCEPT !.current_player = np, !.current_turn = nt]
              ELSE games
  /\ toastError' = [toastError EXCEPT ![u] = @ \cup {"Failed to end turn"}]
  /\ turnMoves' = IF games'.current_player # games.current_player
                  THEN 0 ELSE turnMoves
  /\ turnActions' = IF games'.current_player # games.current_player
                    THEN 0 ELSE turnActions
  /\ turnBonus' = IF games'.current_player # games.current_player
                  THEN FALSE ELSE turnBonus
  /\ nOps' = nOps + 1
  /\ UNCHANGED <<currentGameId, lookups, rolls, stats,
                 players, gameState, loading, game, currentPlayer, loadStage,
                 actionPhase, playerNumber>>

\* A session of one or two players in which calls can throw; the player
\* whose turn it is stands before the start tile or on the missing tile.
FaultyStarts == { <<95, 100, 1500>>, <<97, 100, 1500>> }

InitFaulty ==
  \E n \in 1..2, a \in FaultyStarts :
    /\ games = [current_player |-> 1, current_turn |-> 1, status |-> "active",
                adventure_story |-> TRUE]
    /\ players = [i \in 1..n |->
                    IF i = 1
                    THEN [user_id |-> i, player_number |-> i, position |-> a[1],
                          health |-> a[2], gold |-> a[3]]
                    ELSE NewPlayerRow(i, i)]
    /\ gameState = [u \in Users |-> IF u <= n THEN "game" ELSE "lobby"]
    /\ loading = [u \in Users |-> FALSE]
    /\ game = [u \in Users |-> IF u <= n THEN games ELSE NoGame]
    /\ currentPlayer = [u \in Users |-> IF u <= n THEN Snapshot(u) ELSE NoPlayer]
    /\ loadStage = [u \in Users |-> "idle"]
    /\ actionPhase = [u \in Users |-> FALSE]
    /\ playerNumber = [u \in Users |-> 0]
    /\ toastError = [u \in Users |-> {}]
    /\ turnMoves = 0
    /\ turnActions = 0
    /\ turnBonus = FALSE
    /\ nOps = 0
    /\ InitApp

NextFaulty ==
  \/ nOps < MaxFaultOps /\ \E u \in Users, d1 \in Die, d2 \in Die : rollMovement(u, d1, d2)
  \/ nOps < MaxFaultOps /\ \E u \in Users, r \in ActionRolls : rollAction(u, r)
  \/ \E u \in Users : endTurn(u)
  \/ \E u \in Users : loadGame(u)
  \/ \E u \in Users : loadPlayers(u)
  \/ nOps < MaxFaultOps /\ \E u \in Users, d1 \in Die, d2 \in Die, step \in 1..4 :
                              rollMovementFails(u, d1, d2, step)
  \/ nOps < MaxFaultOps /\ \E u \in Users, r \in ActionRolls, written \in BOOLEAN :
                              rollActionFails(u, r, written)
  \/ nOps < MaxFaultOps /\ \E u \in Users, r \in ActionRolls :
                              rollActionNarrationFails(u, r)
  \/ nOps < MaxFaultOps /\ \E u \in Users, written \in BOOLEAN : endTurnFails(u, written)

SpecFaulty == InitFaulty /\ [][NextFaulty]_vars

\* ---- a game whose adventure has not been generated --------------------
\* One or two users have created their characters in a new game (status
\* 'waiting', no adventure_story) and their boards are mounting; the
\* generation of the adventure can fail.
InitWaiting ==
  \E n \in 1..2 :
    /\ games = [current_player |-> 1, current_turn |-> 1, status |-> "waiting",
                adventure_story |-> FALSE]
    /\ players = [i \in 1..n |-> NewPlayerRow(i, i)]
    /\ gameState = [u \in Users |-> IF u <= n THEN "game" ELSE "lobby"]
    /\ loading = [u \in Users |-> u <= n]
    /\ game = [u \in Users |-> NoGame]
    /\ currentPlayer = [u \in Users |-> NoPlayer]
    /\ loadStage = [u \in Users |-> IF u <= n THEN "games" ELSE "idle"]
    /\ actionPhase = [u \in Users |-> FALSE]
    /\ playerNumber = [u \in Users |-> 0]
    /\ toastError = [u \in Users |-> {}]
    /\ turnMoves = 0
    /\ turnActions = 0
    /\ turnBonus = FALSE
    /\ nOps = 0
    /\ InitApp

NextWaiting ==
  \/ \E u \in Users : loadGame(u)
  \/ \E u \in Users : loadPlayers(u)
  \/ \E u \in Users : generateAdventure(u)
  \/ \E u \in Users, written \in BOOLEAN : generateAdventureFails(u, written)
  \/ nOps < MaxWaitingOps /\ \E u \in Users, d1 \in Die, d2 \in Die : rollMovement(u, d1, d2)
  \/ nOps < MaxWaitingOps /\ \E u \in Users, r \in ActionRolls : rollAction(u, r)
  \/ \E u \in Users : endTurn(u)

SpecWaiting == InitWaiting /\ [][NextWaiting]_vars

\* ---- applyTileEffects on its own ---------------------------------------
\* One player's client with the board mounted calls applyTileEffects(tile,
\* roll) with any tile type and any roll of a d20.
applyTileEffectsCall(u, tile_type, roll) ==
  /\ Rendered(u)
  /\ players' = applyTileEffects(u, tile_type, roll)
  /\ nOps' = nOps + 1
  /\ UNCHANGED <<currentGameId, lookups, rolls, stats,
                 games, gameState, loading, game, currentPlayer, loadStage,
                 actionPhase, playerNumber, toastError, turnMoves,
                 turnActions, turnBonus>>

InitEffects == Init /\ Len(players) = 1

NextEffects ==
  nOps < MaxEffectOps /\
    \E u \in Users, tile_type \in TileTypes, roll \in D20 :
       applyTileEffectsCall(u, tile_type, roll)

SpecEffects == InitEffects /\ [][NextEffects]_vars

\* ---- a game with one seat left -----------------------------------------
\* Three users created their characters earlier and run no client now;
\* the users with a client are in the lobby.
InitCrowd ==
  /\ games = [current_player |-> 1, current_turn |-> 1, status |-> "waiting",
              adventure_story |-> FALSE]
  /\ players = [i \in 1..(MAX_PLAYERS - 1) |-> NewPlayerRow(MAX_PLAYERS + i, i)]
  /\ gameState = [u \in Users |-> "lobby"]
  /\ loading = [u \in Users |-> FALSE]
  /\ game = [u \in Users |-> NoGame]
  /\ currentPlayer = [u \in Users |-> NoPlayer]
  /\ loadStage = [u \in Users |-> "idle"]
  /\ actionPhase = [u \in Users |-> FALSE]
  /\ playerNumber = [u \in Users |-> 0]
  /\ toastError = [u \in Users |-> {}]
  /\ turnMoves = 0
  /\ turnActions = 0
  /\ turnBonus = FALSE
  /\ nOps = 0
  /\ InitApp

SpecCrowd == InitCrowd /\ [][NextCreation]_vars

\* ---- App.onStartGame, call by call --------------------------------------
\* blink.db.players.list({ where: { game_id: gameId, user_id: user.id } })
existingPlayers(u, gameId) == IF gameId = ThisGame THEN UserRows(u) ELSE {}

\* onStartGame up to its await: MainLobby (joinGame, createGame) calls it
\* while the lobby is shown; setCurrentGameId, then the lookup is in flight
onStartGame(u, gameId) ==
  /\ gameState[u] = "lobby"
  /\ currentGameId' = [currentGameId EXCEPT ![u] = gameId]
  /\ lookups' = [lookups EXCEPT ![u] = @ \cup {gameId}]
  /\ UNCHANGED <<games, players, gameState, loading, game, currentPlayer,
                 loadStage, actionPhase, playerNumber, toastError, turnMoves,
                 turnActions, turnBonus, nOps, rolls, stats>>

\* setGameState(view) of a call of onStartGame that resumes: GameBoard is
\* mounted (loading = true, loadGameData started) when the view becomes
\* 'game', and unmounted when the view 'game' is left
setGameState(u, view) ==
  /\ gameState' = [gameState EXCEPT ![u] = view]
  /\ IF view = "game" /\ gameState[u] # "game"
     THEN /\ loading' = [loading EXCEPT ![u] = TRUE]
          /\ game' = [game EXCEPT ![u] = NoGame]
          /\ currentPlayer' = [currentPlayer EXCEPT ![u] = NoPlayer]
          /\ loadStage' = [loadStage EXCEPT ![u] = "games"]
          /\ actionPhase' = [actionPhase EXCEPT ![u] = FALSE]
     ELSE IF view # "game" /\ gameState[u] = "game"
     THEN /\ loading' = [loading EXCEPT ![u] = FALSE]
          /\ game' = [game EXCEPT ![u] = NoGame]
          /\ currentPlayer' = [currentPlayer EXCEPT ![u] = NoPlayer]
          /\ loadStage' = [loadStage EXCEPT ![u] = "idle"]
          /\ actionPhase' = [actionPhase EXCEPT ![u] = FALSE]
     ELSE UNCHANGED <<loading, game, currentPlayer, loadStage, actionPhase>>

\* the lookup of one call returns: the view is chosen from its result
onStartGameResumes(u, gameId) ==
  /\ gameId \in lookups[u]
  /\ lookups' = [lookups EXCEPT ![u] = @ \ {gameId}]
  /\ setGameState(u, IF existingPlayers(u, gameId) # {}
                     THEN "game" ELSE "character-creation")
  /\ UNCHANGED <<games, players, playerNumber, toastError, turnMoves,
                 turnActions, turnBonus, nOps, currentGameId, rolls, stats>>

\* the lookup of one call throws: "Default to character creation on error"
onStartGameThrows(u, gameId) ==
  /\ gameId \in lookups[u]
  /\ lookups' = [lookups EXCEPT ![u] = @ \ {gameId}]
  /\ setGameState(u, "character-creation")
  /\ UNCHANGED <<games, players, playerNumber, toastError, turnMoves,
                 turnActions, turnBonus, nOps, currentGameId, rolls, stats>>

\* A game in play with one or two players whose users are in the lobby,
\* whose list shows this game and another one.
LobbyUsers == Users \cap (1..MaxLobbyUsers)

InitLobby ==
  \E n \in 1..2 :
    /\ games = [current_player |-> 1, current_turn |-> 1, status |-> "active",
                adventure_story |-> TRUE]
    /\ players = [i \in 1..n |-> NewPlayerRow(i, i)]
    /\ gameState = [u \in Users |-> "lobby"]
    /\ loading = [u \in Users |-> FALSE]
    /\ game = [u \in Users |-> NoGame]
    /\ currentPlayer = [u \in Users |-> NoPlayer]
    /\ loadStage = [u \in Users |-> "idle"]
    /\ actionPhase = [u \in Users |-> FALSE]
    /\ playerNumber = [u \in Users |-> 0]
    /\ toastError = [u \in Users |-> {}]
    /\ turnMoves = 0
    /\ turnActions = 0
    /\ turnBonus = FALSE
    /\ nOps = 0
    /\ InitApp

\* the board of the other game reads rows the model does not hold
NextLobby ==
  \/ \E u \in LobbyUsers, gameId \in {ThisGame, OtherGame} : onStartGame(u, gameId)
  \/ \E u \in LobbyUsers, gameId \in {ThisGame, OtherGame} : onStartGameResumes(u, gameId)
  \/ \E u \in LobbyUsers, gameId \in {ThisGame, OtherGame} : onStartGameThrows(u, gameId)
  \/ \E u \in LobbyUsers : currentGameId[u] = ThisGame /\ loadGame(u)
  \/ \E u \in LobbyUsers : currentGameId[u] = ThisGame /\ loadPlayers(u)
  \/ nOps < MaxLobbyOps /\ \E u \in LobbyUsers : onExitGame(u)
  \/ \E u \in LobbyUsers : onBack(u)

SpecLobby == InitLobby /\ [][NextLobby]_vars

\* ---- CharacterCreation.rollStat ----------------------------------------
RECURSIVE insertDescending(_, _)
\* rolls.sort((a, b) => b - a), one element at a time
insertDescending(x, sorted) ==
  IF sorted = <<>> THEN <<x>>
  ELSE IF x >= Head(sorted) THEN <<x>> \o sorted
       ELSE <<Head(sorted)>> \o insertDescending(x, Tail(sorted))

RECURSIVE sortDescending(_)
sortDescending(s) ==
  IF s = <<>> THEN <<>> ELSE insertDescending(Head(s), sortDescending(Tail(s)))

RECURSIVE reduceSum(_)
\* reduce((sum, roll) => sum + roll, 0)
reduceSum(s) == IF s = <<>> THEN 0 ELSE Head(s) + reduceSum(Tail(s))

\* the slice taken from the array as it was drawn
rollStatUnsorted(drawn) == reduceSum(SubSeq(drawn, 1, STAT_KEPT))

\* the value rollStat returns when Array.from has drawn the four values
rollStat(drawn) == reduceSum(SubSeq(sortDescending(drawn), 1, STAT_KEPT))

\* rollStats calls rollStat once for each of the six attributes; one call
rollStatCall(u, drawn) ==
  /\ gameState[u] = "character-creation"
  /\ rolls' = drawn
  /\ stats' = rollStat(drawn)
  /\ UNCHANGED <<games, players, gameState, loading, game, currentPlayer,
                 loadStage, actionPhase, playerNumber, toastError, turnMoves,
                 turnActions, turnBonus, nOps, currentGameId, lookups>>

\* user 1 has joined a new game and is on the character creation screen
InitStats ==
  /\ games = [current_player |-> 1, current_turn |-> 1, status |-> "waiting",
              adventure_story |-> FALSE]
  /\ players = <<>>
  /\ gameState = [u \in Users |-> IF u = 1 THEN "character-creation" ELSE "lobby"]
  /\ loading = [u \in Users |-> FALSE]
  /\ game = [u \in Users |-> NoGame]
  /\ currentPlayer = [u \in Users |-> NoPlayer]
  /\ loadStage = [u \in Users |-> "idle"]
  /\ actionPhase = [u \in Users |-> FALSE]
  /\ playerNumber = [u \in Users |-> 0]
  /\ toastError = [u \in Users |-> {}]
  /\ turnMoves = 0
  /\ turnActions = 0
  /\ turnBonus = FALSE
  /\ nOps = 0
  /\ InitApp

NextStats == \E u \in Users, drawn \in rollDice(STAT_DICE) : rollStatCall(u, drawn)

SpecStats == InitStats /\ [][NextStats]_vars

\* ---- the turn operations, as steps --------------------------------------
\* some turn operation of user u's client is accepted
TurnOp(u) ==
  \/ \E d1 \in Die, d2 \in Die : rollMovement(u, d1, d2)
  \/ \E r \in Die : rollAction(u, r)
  \/ endTurn(u)

\* C1: every stored health is in 0..100 and every stored gold is >= 0.
C1_ResourcesInRange ==
  \A i \in DOMAIN players :
    /\ 0 <= players[i].health
    /\ players[i].health <= MAX_HEALTH
    /\ players[i].gold >= 0

\* a tile effect has taken a player's health or gold down to the floor
C1_Witness ==
  /\ \E i \in DOMAIN players : players[i].gold = 0
  /\ \E u \in Users : actionPhase[u] /\ currentPlayer[u].gold = 10

\* C2: the stored current_player is the player_number of a registered
\* player of the session.
C2_PointerNamesPlayer == games.current_player \in PlayerNumbers

\* C3: an accepted endTurn sets the stored current_player to
\* (current_player mod rosterSize) + 1.
C3_CyclicAdvance ==
  [][\A u \in Users :
       endTurn(u) =>
         games'.current_player = (games.current_player % rosterSize) + 1]_vars

\* C4: the stored current_turn never decreases; an accepted endTurn adds
\* exactly 1 when the new current_player is 1 and leaves it unchanged
\* otherwise; no other step changes it.
C4_TurnCounter ==
  [][/\ games'.current_turn >= games.current_turn
     /\ \A u \in Users :
          endTurn(u) =>
            games'.current_turn =
              IF games'.current_player = 1 THEN games.current_turn + 1
              ELSE games.current_turn
     /\ (~ \E u \in Users : endTurn(u)) =>
          games'.current_turn = games.current_turn]_vars

\* C5: an accepted rollMovement stores (p + d1 + d2) mod boardSize, p the
\* position stored for the player immediately before the call.
C5_MovesFromStoredPosition ==
  [][\A u \in Users, d1 \in Die, d2 \in Die :
       rollMovement(u, d1, d2) =>
         players'[currentPlayer[u].id].position =
           (Row(u).position + d1 + d2) % BOARD_SIZE]_vars

\* C6: an accepted rollMovement adds exactly 200 to the stored gold iff
\* stored position + d1 + d2 >= boardSize, and leaves it unchanged otherwise.
C6_WrapBonus ==
  [][\A u \in Users, d1 \in Die, d2 \in Die :
       rollMovement(u, d1, d2) =>
         players'[currentPlayer[u].id].gold =
           IF Row(u).position + d1 + d2 >= BOARD_SIZE
           THEN Row(u).gold + WRAP_BONUS
           ELSE Row(u).gold]_vars

\* C7: a turn operation of a player whose player_number is not the stored
\* current_player changes neither the players nor the game row.
C7_OutOfTurnChangesNothing ==
  [][\A u \in Users :
       (TurnOp(u) /\ ~StoredActive(u)) => UNCHANGED <<players, games>>]_vars

\* C8: a turn operation is accepted only from the player whose
\* player_number is the stored current_player.
C8_SingleActiveWriter ==
  [][\A u \in Users : TurnOp(u) => StoredActive(u)]_vars

\* C9: the active player's rollAction is accepted only after a rollMovement
\* of the same turn.
C9_ActionAfterMovement ==
  [][\A u \in Users, r \in Die :
       (rollAction(u, r) /\ StoredActive(u)) => turnMoves >= 1]_vars

\* C10: within one turn at most one movement roll of the active player is
\* accepted.
C10_OneMovementPerTurn == turnMoves <= 1

\* C11: within one turn at most one action roll of the active player is
\* accepted.
C11_OneActionPerTurn == turnActions <= 1

\* C12: the active player's operations are accepted only in the order
\* rollMovement, rollAction, endTurn: no movement roll after the turn's
\* action roll, no action roll before its movement roll, and endTurn only
\* after both.
C12_TurnOrder ==
  [][\A u \in Users :
       StoredActive(u) =>
         /\ (\E d1 \in Die, d2 \in Die : rollMovement(u, d1, d2)) =>
              turnActions = 0
         /\ (\E r \in Die : rollAction(u, r)) => turnMoves >= 1
         /\ endTurn(u) => (turnMoves >= 1 /\ turnActions >= 1)]_vars

\* the policy table of tile effects: <<healthDelta, goldDelta>>
PolicyTable(tile_type, r) ==
  CASE tile_type = "monster" ->
         IF r >= 15 THEN <<0, 50 + 5 * r>>
         ELSE IF r <= 8 THEN <<-15, 0>> ELSE <<0, 0>>
    [] tile_type = "treasure" -> <<0, 25 + 3 * r>>
    [] tile_type = "event" ->
         IF r >= 12 THEN <<0, 30>>
         ELSE IF r <= 6 THEN <<0, -20>> ELSE <<0, 0>>
    [] tile_type \in {"property", "start"} -> <<0, 0>>

\* C13: for every tile type and every roll 1..20 the health and gold
\* changes applyTileEffects computes are those of the policy table.
C13_EffectTable ==
  [][\A u \in Users, tile_type \in TileTypes, roll \in D20 :
       applyTileEffectsCall(u, tile_type, roll) =>
         <<healthChange(tile_type, roll), goldChange(tile_type, roll)>> =
           PolicyTable(tile_type, roll)]_vars

\* a monster tile with roll 20 has paid 50 + 100 gold
C13_Witness ==
  \E u \in Users :
    /\ Rendered(u)
    /\ nOps >= 1
    /\ Row(u).gold = currentPlayer[u].gold + 150
    /\ Row(u).health = currentPlayer[u].health

\* C14: the action roll is one d20: where a client can roll the action,
\* every roll it can draw is in 1..20 and every value of 1..20 can be drawn.
C14_ActionRollIsD20 ==
  \A u \in Users :
    (ENABLED (\E r \in ActionRolls : rollAction(u, r))) =>
      /\ ActionRolls \subseteq D20
      /\ \A r \in D20 : ENABLED (r \in ActionRolls /\ rollAction(u, r))

\* C15: a rollMovement, rollAction or endTurn that fails leaves the players
\* and the game row either as they were or with the operation's full
\* effect.
C15_FailureAtomic ==
  [][\A u \in Users :
       /\ \A d1 \in Die, d2 \in Die, step \in 1..4 :
            rollMovementFails(u, d1, d2, step) =>
              /\ games' = games
              /\ \/ players' = players
                 \/ players' =
                      movementWrites(u, d1, d2,
                        IF passedStart(currentPlayer[u].position, d1 + d2)
                        THEN 2 ELSE 1)
       /\ \A r \in ActionRolls, written \in BOOLEAN :
            rollActionFails(u, r, written) =>
              /\ games' = games
              /\ \/ players' = players
                 \/ /\ TilesAt(currentPlayer[u].position) # <<>>
                    /\ players' =
                         applyTileEffects(u, TilesAt(currentPlayer[u].position)[1], r)
       /\ \A written \in BOOLEAN :
            endTurnFails(u, written) =>
              /\ players' = players
              /\ \/ games' = games
                 \/ games' =
                      [games EXCEPT
                         !.current_player = nextPlayer(game[u].current_player),
                         !.current_turn = nextTurn(game[u].current_player,
                                                   game[u].current_turn)]]_vars

\* C16: a rollAction that finds no tile at the player's position shows
\* "Tile not found" and changes neither the players nor the game row.
C16_TileNotFoundReported ==
  [][\A u \in Users, r \in ActionRolls :
       (rollAction(u, r) /\ currentPlayer[u].position \in MissingTiles) =>
         /\ "Tile not found" \in toastError'[u]
         /\ UNCHANGED <<players, games>>]_vars

\* a client on the missing tile has rolled its action and been told
C16_Witness ==
  \E u \in Users :
    /\ actionPhase[u]
    /\ currentPlayer[u].position \in MissingTiles
    /\ "Tile not found" \in toastError[u]

\* C17: no two players of the session have the same player_number.
C17_UniquePlayerNumber ==
  \A i \in DOMAIN players, j \in DOMAIN players :
    i # j => players[i].player_number # players[j].player_number

\* C18: every player record is created with position 0, health 100 and
\* gold 1500, and its user then has no other player record in the game.
C18_CreatedOncePerUser ==
  [][\A u \in Users :
       createCharacterCreate(u) =>
         /\ Len(players') = Len(players) + 1
         /\ players'[Len(players')].position = 0
         /\ players'[Len(players')].health = 100
         /\ players'[Len(players')].gold = 1500
         /\ Cardinality({i \in DOMAIN players' : players'[i].user_id = u}) <= 1]_vars

\* C19: in a turn whose movement roll granted the wrap bonus, the turn's
\* first action roll, with gold change g, stores max(0, G + 200 + g): the
\* change is applied to the gold the movement left stored (G + 200).
C19_BonusKept ==
  [][\A u \in Users, r \in ActionRolls :
       ( /\ rollAction(u, r)
         /\ StoredActive(u)
         /\ turnBonus /\ turnMoves = 1 /\ turnActions = 0
         /\ TilesAt(currentPlayer[u].position) # <<>> )
       => players'[currentPlayer[u].id].gold =
            Max(0, Row(u).gold
                   + goldChange(TilesAt(currentPlayer[u].position)[1], r))]_vars

\* C20: the effect an action roll of the active player applies after the
\* turn's movement roll is the effect of the tile at the player's stored
\* position.
C20_TileAtStoredPosition ==
  [][\A u \in Users, r \in ActionRolls :
       (rollAction(u, r) /\ StoredActive(u) /\ turnMoves >= 1) =>
         players' = IF TilesAt(Row(u).position) = <<>> THEN players
                    ELSE applyTileEffects(u, TilesAt(Row(u).position)[1], r)]_vars

\* C21: an action roll that finds its tile stores health = min(100, max(0,
\* h + healthDelta)) and gold = max(0, g + goldDelta), h and g the health
\* and gold stored for the player immediately before the call.
C21_EffectsOnStoredValues ==
  [][\A u \in Users, r \in ActionRolls :
       (rollAction(u, r) /\ TilesAt(currentPlayer[u].position) # <<>>) =>
         LET tile_type == TilesAt(currentPlayer[u].position)[1]
             row == players'[currentPlayer[u].id]
         IN /\ row.health =
                 Min(MAX_HEALTH,
                     Max(0, Row(u).health + healthChange(tile_type, r)))
            /\ row.gold = Max(0, Row(u).gold + goldChange(tile_type, r))]_vars

\* C22: an action roll whose narration call fails still applies the tile
\* effect to the player's health and gold, the same as with a narration
\* that succeeds.
C22_EffectsDespiteNarration ==
  [][\A u \in Users, r \in ActionRolls :
       rollActionNarrationFails(u, r) =>
         players' = applyTileEffects(u, TilesAt(currentPlayer[u].position)[1], r)]_vars

\* C23: once endTurn has passed the turn on, the first operation accepted
\* from the new active player is rollMovement.
C23_TurnStartsWithMovement ==
  [][\A u \in Users :
       (StoredActive(u) /\ turnMoves = 0 /\ turnActions = 0 /\ TurnOp(u)) =>
         \E d1 \in Die, d2 \in Die : rollMovement(u, d1, d2)]_vars

\* C24: while the game's stored status is not 'active', a rollMovement,
\* rollAction or endTurn changes neither the players nor the game row.
C24_WaitingGameRejectsTurns ==
  [][\A u \in Users :
       (TurnOp(u) /\ games.status # "active") =>
         UNCHANGED <<players, games>>]_vars

\* what a step leaves of the rows of the players other than client u's, and
\* of the identity of that row
OthersUnchanged(u) ==
  /\ DOMAIN players' = DOMAIN players
  /\ \A i \in DOMAIN players : i # currentPlayer[u].id => players'[i] = players[i]
  /\ players'[currentPlayer[u].id].user_id = Row(u).user_id
  /\ players'[currentPlayer[u].id].player_number = Row(u).player_number

\* C25: rollMovement and rollAction change only the position, health and
\* gold of the player they are called for, and nothing of the game row;
\* endTurn changes only current_player and current_turn.  (Each step is
\* identified by the action itself; the conjuncts before it follow from it.)
C25_FrameEffects ==
  [][\A u \in Users :
       /\ (/\ nOps' = nOps + 1 /\ ~actionPhase[u] /\ actionPhase'[u]
           /\ currentPlayer[u].id \in DOMAIN players'
           /\ \E d1 \in Die, d2 \in Die :
                /\ players'[currentPlayer[u].id].position =
                     newPosition(currentPlayer[u].position, d1 + d2)
                /\ rollMovement(u, d1, d2)) =>
            (games' = games /\ OthersUnchanged(u)
             /\ players'[currentPlayer[u].id].health = Row(u).health)
       /\ (/\ nOps' = nOps + 1 /\ actionPhase[u]
           /\ \E r \in ActionRolls : rollAction(u, r)) =>
            (games' = games /\ OthersUnchanged(u)
             /\ players'[currentPlayer[u].id].position = Row(u).position)
       /\ (actionPhase[u] /\ ~actionPhase'[u] /\ endTurn(u)) =>
            /\ players' = players
            /\ games' = [games EXCEPT !.current_player = games'.current_player,
                                      !.current_turn = games'.current_turn]]_vars

\* in a game of several players one of them has rolled an action that
\* changed its gold or health
C25_Witness ==
  /\ Len(players) >= 2
  /\ \E u \in Users :
       /\ actionPhase[u]
       /\ turnActions >= 1
       /\ \/ Row(u).health # currentPlayer[u].health
          \/ Row(u).gold \notin {currentPlayer[u].gold,
                                 currentPlayer[u].gold + WRAP_BONUS}

\* C26: rollStat returns the sum of the three highest of the four d6 values
\* drawn (the total less one smallest value), a number from 3 to 18.
C26_DropLowest ==
  rolls # <<>> =>
    /\ \E i \in 1..4 :
         /\ \A j \in 1..4 : rolls[i] <= rolls[j]
         /\ stats = rolls[1] + rolls[2] + rolls[3] + rolls[4] - rolls[i]
    /\ stats \in 3..18

\* the lowest value was drawn first and the three others are sixes
C26_Witness == rolls = <<2, 6, 6, 6>> /\ stats = 18

\* C27: the session never reaches a state in which the stored
\* current_player is the number of no player of the game and no client
\* accepts a turn operation (from which no player becomes active again).
C27_NeverStuck ==
  ~ /\ games.current_player \notin PlayerNumbers
    /\ \A u \in Users : ~ENABLED TurnOp(u)

\* C28: the game never holds more than 4 player records, whatever the
\* interleaving of the createCharacter calls of different users.
C28_AtMostFourPlayers == Len(players) <= MAX_PLAYERS

\* C29: joinGame by a user who has a player in the game always shows that
\* user the board of the game, whatever the number of players of the game.
C29_RejoinAlwaysEnters ==
  [][\A u \in Users :
       joinGame(u) => (gameState'[u] = "game" /\ currentGameId'[u] = ThisGame)]_vars

\* C30: whenever App shows the game view, the user has a player in the game
\* that currentGameId identifies.
C30_GameViewOfOwnGame ==
  \A u \in Users :
    (gameState[u] = "game" /\ currentGameId[u] # 0) =>
       existingPlayers(u, currentGameId[u]) # {}
====
